---- MODULE Spec2Model ----
(***************************************************************************)
(* Connect4 rules engine (games/connect4.py): class Game with its grid,    *)
(* history, turn rotation, legal_plays(), winner() and play().             *)
(*                                                                         *)
(* The grid is a function on (row, column) pairs, 0-based as in numpy, row *)
(* 0 being the top row.  Players are identified by their value (1 for A,   *)
(* 2 for B), which is how Player.__eq__ compares them.                     *)
(***************************************************************************)
EXTENDS Integers, Sequences, FiniteSets

(* ---------- bounds of the exploration ---------- *)

\* number of accepted moves the caller may add after its scripted opening
MaxFree == 3

(* ---------- program constants ---------- *)

\* Python's None (winner_, last_play, the omitted move argument); an integer
\* outside every column, row and player value
None == -100

\* Game.__init__ default board_size=(6, 7)
DefaultBoardSize == <<6, 7>>

\* Player values, in registration order (self.players_values)
players_values == <<1, 2>>

VARIABLES
    board_size,      \* self.board_size, <<rows, columns>>
    state,           \* self.state, the grid
    save_history,    \* self.save_history
    history,         \* self.history, sequence of grid snapshots
    last_play,       \* self.last_play
    players_gen,     \* position of cycle(self.players): index of the next player it yields
    current_player,  \* self.current_player (by value)
    winner_,         \* self.winner_ (None or a player value)
    played,          \* log of the selected_move of every play() call that returned normally
    script,          \* the caller's scripted opening (sequence of columns)
    call,            \* the last operation called
    arg,             \* the move argument of the last play() call
    raised,          \* whether the last call raised ValueError
    ret_plays,       \* list returned by the last legal_plays() call
    ret_winner       \* value returned by the last winner() call

game == <<state, history, last_play, players_gen, current_player, winner_>>
vars == <<board_size, state, save_history, history, last_play, players_gen,
          current_player, winner_, played, script, call, arg, raised,
          ret_plays, ret_winner>>

Min(a, b) == IF a < b THEN a ELSE b
Max(a, b) == IF a > b THEN a ELSE b

Rows == board_size[1]
Columns == board_size[2]

\* np.zeros(board_size, dtype=int)
Zeros(bs) == [c \in (0 .. bs[1] - 1) \X (0 .. bs[2] - 1) |-> 0]

\* Python index normalisation: a negative index counts from the end
PyIndex(k, n) == IF k < 0 THEN k + n ELSE k

\* Python slice bound normalisation for a[start:stop] on a length n
PySliceBound(k, n) == IF k < 0 THEN Max(k + n, 0) ELSE Min(k, n)

\* x[lo:hi, j]: the cells of column j in rows lo .. hi-1
ColumnSlice(x, j, lo, hi) ==
    IF hi <= lo THEN <<>> ELSE [n \in 1 .. (hi - lo) |-> x[lo + n - 1, j]]

\* x[i, lo:hi]: the cells of row i in columns lo .. hi-1
RowSlice(x, i, lo, hi) ==
    IF hi <= lo THEN <<>> ELSE [n \in 1 .. (hi - lo) |-> x[i, lo + n - 1]]

(* ---------- the opening scripts of the caller ---------- *)

\* Move sequences the caller replays with play(col) before it plays freely.
\* None of them contains a winning move; they lead next to a vertical, a
\* horizontal, a diagonal and an anti-diagonal four for either player, to a
\* full column and to a full board.
Openings ==
    { <<>>,
      <<3, 0, 3, 0>>,
      <<0, 0, 1, 1>>,
      <<1, 1, 2, 1, 6, 1>>,
      <<0, 0, 0, 0, 0>>,
      <<4, 2, 1, 2, 3, 5, 2, 1, 3>>,
      <<4, 4, 2, 0, 1, 4, 2, 3, 4>>,
      <<5, 6, 3, 5, 6, 4, 3, 3, 0, 3>>,
      <<2, 1, 3, 2, 3, 3, 4, 4>>,
      <<4, 3, 6, 0, 1, 4, 5, 5, 1, 1, 5, 0, 1, 6, 0, 1, 5, 5, 1, 0, 4, 6, 3,
        2, 6, 6, 0, 4, 6, 5, 2, 0, 4, 2, 4, 2, 2, 2, 3>> }

(* ---------- legal_plays() and winner() ---------- *)

\* Game.winner
winner == winner_

\* x in list
In(v, list) == \E k \in 1 .. Len(list) : list[k] = v

\* variant of free_spaces without invert=True: marks the occupied cells
free_spaces_not_inverted(x) == [c \in DOMAIN x |-> In(x[c], players_values)]

\* np.isin(state, players_values, invert=True)
free_spaces(x) == [c \in DOMAIN x |-> ~In(x[c], players_values)]

\* free_spaces.sum(axis=0): per column, the number of True cells
SumAxis0(b, bs) ==
    [j \in 0 .. bs[2] - 1 |-> Cardinality({i \in 0 .. bs[1] - 1 : b[i, j]})]

\* variant of ArgWhere keeping only the entries above 1
RECURSIVE ArgWhereAboveOne(_, _, _)
ArgWhereAboveOne(v, j, n) ==
    IF j >= n THEN <<>>
    ELSE (IF v[j] > 1 THEN <<j>> ELSE <<>>) \o ArgWhereAboveOne(v, j + 1, n)

\* np.argwhere(v).ravel().tolist() on v[j..n-1]: ascending indices of non-zero entries
RECURSIVE ArgWhere(_, _, _)
ArgWhere(v, j, n) ==
    IF j >= n THEN <<>>
    ELSE (IF v[j] # 0 THEN <<j>> ELSE <<>>) \o ArgWhere(v, j + 1, n)

\* variant of legal_plays without the test of the winner
legal_plays_ignoring_winner ==
    ArgWhere(SumAxis0(free_spaces(state), board_size), 0, Columns)

\* Game.legal_plays
legal_plays ==
    IF winner = None
    THEN ArgWhere(SumAxis0(free_spaces(state), board_size), 0, Columns)
    ELSE <<>>

(* ---------- play() ---------- *)

\* variant of row_number counting the cells equal to 1 instead of the non-zero ones
row_number_counting_ones(x, bs, selected_move) ==
    bs[1] - Cardinality({i \in 0 .. bs[1] - 1 : x[i, selected_move] = 1}) - 1

\* variant of row_number indexing from the top: the count of occupied cells
row_number_from_top(x, bs, selected_move) ==
    Cardinality({i \in 0 .. bs[1] - 1 : x[i, selected_move] # 0})

\* row_number = self.board_size[0] - sum(self.state[:, selected_move] != 0) - 1
row_number(x, bs, selected_move) ==
    bs[1] - Cardinality({i \in 0 .. bs[1] - 1 : x[i, selected_move] # 0}) - 1

\* variant of SetCell writing the index of the player in self.players, not its value
SetCellWritingIndex(x, bs, i, j, v) == [x EXCEPT ![PyIndex(i, bs[1]), j] = v - 1]

\* self.state[row_number, selected_move] = self.current_player.value
SetCell(x, bs, i, j, v) == [x EXCEPT ![PyIndex(i, bs[1]), j] = v]

\* variant of NewHistory appending the grid without copy(): the snapshots
\* appended by play() are all the one array that play() keeps writing
NewHistoryByReference(h, x, sh) ==
    IF sh THEN [m \in 1 .. Len(h) + 1 |-> IF m = 1 THEN h[1] ELSE x] ELSE <<x>>

\* variant of NewHistory that leaves the history alone when it is not retained
NewHistoryKeepingFirst(h, x, sh) == IF sh THEN Append(h, x) ELSE h

\* history.append(state.copy()) or history = [state.copy()]
NewHistory(h, x, sh) == IF sh THEN Append(h, x) ELSE <<x>>

\* x[:, ::-1]
FlipColumns(x, bs) == [c \in DOMAIN x |-> x[c[1], bs[2] - 1 - c[2]]]

\* np.diagonal(a, offset=k) of a 2-D array of shape bs
Diagonal(a, bs, k) ==
    LET L == IF k >= 0 THEN Min(bs[1], bs[2] - k) ELSE Min(bs[1] + k, bs[2])
    IN  IF L <= 0 THEN <<>>
        ELSE [n \in 1 .. L |-> IF k >= 0 THEN a[n - 1, n - 1 + k]
                                         ELSE a[n - 1 - k, n - 1]]

\* offset=j - i
DiagOffset(bs, i, j) == j - i

\* variant of AntiDiagOffset taking the number of columns for len(x)
AntiDiagOffsetByColumns(bs, i, j) == bs[2] - (i + j)

\* offset=len(x)-(i+j)
AntiDiagOffset(bs, i, j) == bs[1] - (i + j)

\* spaces_to_check: column segment, row segment, diagonal, anti-diagonal
spaces_to_check(x, bs, i, j) ==
    << ColumnSlice(x, j, PySliceBound(Max(i - 3, 0), bs[1]), PySliceBound(i + 4, bs[1])),
       RowSlice(x, PyIndex(i, bs[1]),
                PySliceBound(Max(j - 3, 0), bs[2]), PySliceBound(j + 4, bs[2])),
       Diagonal(x, bs, DiagOffset(bs, i, j)),
       Diagonal(FlipColumns(x, bs), bs, AntiDiagOffset(bs, i, j)) >>

\* str() of a cell value
Str(v) == <<"0", "1", "2", "3", "4", "5", "6", "7", "8", "9">>[v + 1]

\* ''.join([str(i) for i in space]), as the sequence of its characters
space_as_text(space) == [n \in 1 .. Len(space) |-> Str(space[n])]

\* ''.join([str(self.current_player.value)] * 4)
pattern(value) == [n \in 1 .. 4 |-> Str(value)]

\* pattern in space_as_text
Substring(pat, text) ==
    \E s \in 0 .. Len(text) - Len(pat) : \A k \in 1 .. Len(pat) : text[s + k] = pat[k]

\* the loop over spaces_to_check finds the pattern
WinFound(x, bs, i, j, value) ==
    \E n \in 1 .. 4 :
        Substring(pattern(value), space_as_text(spaces_to_check(x, bs, i, j)[n]))

\* next(self.players_gen)
NextPlayer(gen) == players_values[gen + 1]

\* variant of Raise where play() has drawn the next player before it validates the move
RaiseAdvancingTurn ==
    /\ raised' = TRUE
    /\ players_gen' = (players_gen + 1) % 2
    /\ UNCHANGED <<state, history, last_play, current_player, winner_, played>>

\* raise ValueError: nothing of the game is modified
Raise ==
    /\ raised' = TRUE
    /\ UNCHANGED <<game, played>>

\* variant of ApplyMove without the return after a win: the turn always rotates
ApplyMoveAlwaysRotating(selected_move) ==
    LET i == row_number(state, board_size, selected_move)
        x == SetCell(state, board_size, i, selected_move, current_player)
        won == WinFound(x, board_size, i, selected_move, current_player)
    IN  /\ state' = x
        /\ last_play' = selected_move
        /\ history' = NewHistory(history, x, save_history)
        /\ winner_' = IF won THEN current_player ELSE winner_
        /\ current_player' = NextPlayer(players_gen)
        /\ players_gen' = (players_gen + 1) % 2
        /\ played' = Append(played, selected_move)
        /\ raised' = FALSE

\* variant of ApplyMove recording the argument of play(): self.last_play = move
ApplyMoveRecordingArgument(selected_move) ==
    LET i == row_number(state, board_size, selected_move)
        x == SetCell(state, board_size, i, selected_move, current_player)
        won == WinFound(x, board_size, i, selected_move, current_player)
    IN  /\ state' = x
        /\ last_play' = arg'
        /\ history' = NewHistory(history, x, save_history)
        /\ winner_' = IF won THEN current_player ELSE winner_
        /\ current_player' = IF won THEN current_player ELSE NextPlayer(players_gen)
        /\ players_gen' = IF won THEN players_gen ELSE (players_gen + 1) % 2
        /\ played' = Append(played, selected_move)
        /\ raised' = FALSE

\* lines 117-141 of play() for the selected move
ApplyMove(selected_move) ==
    LET i == row_number(state, board_size, selected_move)
        x == SetCell(state, board_size, i, selected_move, current_player)
        won == WinFound(x, board_size, i, selected_move, current_player)
    IN  /\ state' = x
        /\ last_play' = selected_move
        /\ history' = NewHistory(history, x, save_history)
        /\ winner_' = IF won THEN current_player ELSE winner_
        /\ current_player' = IF won THEN current_player ELSE NextPlayer(players_gen)
        /\ players_gen' = IF won THEN players_gen ELSE (players_gen + 1) % 2
        /\ played' = Append(played, selected_move)
        /\ raised' = FALSE

\* variant of IsLegal testing the column against the board width only
IsLegalInRange(move, lp) == move \in 0 .. DefaultBoardSize[2] - 1

\* move in legal_plays
IsLegal(move, lp) == In(move, lp)

\* variant of Selected choosing among all the columns of the board
SelectedAmongAllColumns(lp) == 0 .. DefaultBoardSize[2] - 1

\* variant of Selected drawing the index below len(legal_plays) - 1
SelectedButLast(lp) == {lp[k + 1] : k \in 0 .. Len(lp) - 2}

\* legal_plays[np.random.choice(len(legal_plays), 1)[0]]: the moves the random
\* choice can select; np.random.choice(0, 1) raises ValueError (no move)
Selected(lp) == {lp[k + 1] : k \in 0 .. Len(lp) - 1}

(* ---------- a Game as a value: a second game fed explicit columns ---------- *)

\* Game(board_size=bs): the attributes after __init__, with the outcome of the
\* last play() call (raised) and the number of play() calls that returned
GameInit(bs) ==
    [state |-> Zeros(bs), history |-> <<Zeros(bs)>>, last_play |-> None,
     players_gen |-> 1, current_player |-> players_values[1], winner_ |-> None,
     raised |-> FALSE, accepted |-> 0]

\* g.legal_plays()
LegalPlaysOf(g, bs) ==
    IF g.winner_ = None
    THEN ArgWhere(SumAxis0(free_spaces(g.state), bs), 0, bs[2])
    ELSE <<>>

\* g.play(move) with a column given; the written grid is rebuilt cell by
\* cell so that it is a plain value at every depth of a replay
PlayOn(g, bs, sh, move) ==
    IF ~IsLegal(move, LegalPlaysOf(g, bs))
    THEN [g EXCEPT !.raised = TRUE]
    ELSE LET row == row_number(g.state, bs, move)
             written == SetCell(g.state, bs, row, move, g.current_player)
             grid == [cell \in DOMAIN written |-> written[cell]]
             won == WinFound(grid, bs, row, move, g.current_player)
         IN  [state |-> grid,
              history |-> NewHistory(g.history, grid, sh),
              last_play |-> move,
              players_gen |-> IF won THEN g.players_gen ELSE (g.players_gen + 1) % 2,
              current_player |-> IF won THEN g.current_player
                                        ELSE NextPlayer(g.players_gen),
              winner_ |-> IF won THEN g.current_player ELSE g.winner_,
              raised |-> FALSE,
              accepted |-> g.accepted + 1]

\* a fresh game after play(cols[1]), ..., play(cols[m])
RECURSIVE Replay(_, _, _, _)
Replay(cols, m, bs, sh) ==
    IF m = 0 THEN GameInit(bs)
    ELSE PlayOn(Replay(cols, m - 1, bs, sh), bs, sh, cols[m])

\* the components of the value that self.last_play = selected_move records:
\* none while it is None, else the one integer
LastPlayRecord == IF last_play = None THEN <<>> ELSE <<last_play>>

\* the values a caller passes as move
Moves == (-1 .. Columns) \cup {None}

\* the caller replays its opening, then makes at most MaxFree further moves;
\* once no move is legal it may keep calling
CallerPlays(move) ==
    IF Len(played) < Len(script)
    THEN move = script[Len(played) + 1]
    ELSE Len(played) < Len(script) + MaxFree \/ Len(legal_plays) = 0

\* Game.play
Play(move) ==
    /\ CallerPlays(move)
    /\ call' = "play"
    /\ arg' = move
    /\ ret_plays' = <<>>
    /\ ret_winner' = None
    /\ UNCHANGED <<board_size, save_history, script>>
    /\ IF move # None
       THEN IF IsLegal(move, legal_plays) THEN ApplyMove(move) ELSE Raise
       ELSE IF Selected(legal_plays) = {}
            THEN Raise     \* np.random.choice(0, 1) raises ValueError
            ELSE \E selected_move \in Selected(legal_plays) : ApplyMove(selected_move)

\* variant of CallLegalPlays that draws from players_gen to learn whose turn it is
CallLegalPlaysAdvancingTurn ==
    /\ call' = "legal_plays"
    /\ arg' = None
    /\ raised' = FALSE
    /\ ret_plays' = legal_plays
    /\ ret_winner' = None
    /\ players_gen' = (players_gen + 1) % 2
    /\ UNCHANGED <<board_size, save_history, script, played>>
    /\ UNCHANGED <<state, history, last_play, current_player, winner_>>

\* a call of legal_plays()
CallLegalPlays ==
    /\ call' = "legal_plays"
    /\ arg' = None
    /\ raised' = FALSE
    /\ ret_plays' = legal_plays
    /\ ret_winner' = None
    /\ UNCHANGED <<board_size, save_history, script, game, played>>

\* a call of winner()
CallWinner ==
    /\ call' = "winner"
    /\ arg' = None
    /\ raised' = FALSE
    /\ ret_plays' = <<>>
    /\ ret_winner' = winner
    /\ UNCHANGED <<board_size, save_history, script, game, played>>

\* Game.__init__ with the default board size, either history mode
Init ==
    /\ board_size = DefaultBoardSize
    /\ state = Zeros(DefaultBoardSize)
    /\ save_history \in BOOLEAN
    /\ history = <<Zeros(DefaultBoardSize)>>
    /\ last_play = None
    /\ players_gen = 1
    /\ current_player = players_values[1]
    /\ winner_ = None
    /\ played = <<>>
    /\ script \in Openings
    /\ call = "init"
    /\ arg = None
    /\ raised = FALSE
    /\ ret_plays = <<>>
    /\ ret_winner = None

Next ==
    \/ \E move \in Moves : Play(move)
    \/ CallLegalPlays
    \/ CallWinner

Spec == Init /\ [][Next]_vars

(* ---------- games on other board sizes ---------- *)

\* board sizes passed to Game(board_size=...) besides the default
BoardSizes == {<<4, 4>>, <<5, 5>>, <<4, 5>>}

\* the openings of the caller on these boards: none contains a winning move;
\* the long ones stop two moves before an anti-diagonal four
OpeningsOn(bs) ==
    IF bs = <<4, 4>> THEN {<<>>, <<2, 3, 2, 2, 1, 1, 3, 0>>}
    ELSE IF bs = <<5, 5>> THEN {<<>>, <<1, 1, 3, 0, 2, 2, 3, 2>>}
    ELSE {<<>>, <<2, 1, 2, 0, 3, 2, 3, 1>>}

\* Game.__init__ with a board size given, either history mode
InitSizes ==
    /\ board_size \in BoardSizes
    /\ state = Zeros(board_size)
    /\ save_history \in BOOLEAN
    /\ history = <<Zeros(board_size)>>
    /\ last_play = None
    /\ players_gen = 1
    /\ current_player = players_values[1]
    /\ winner_ = None
    /\ played = <<>>
    /\ script \in OpeningsOn(board_size)
    /\ call = "init"
    /\ arg = None
    /\ raised = FALSE
    /\ ret_plays = <<>>
    /\ ret_winner = None

SpecSizes == InitSizes /\ [][Next]_vars

(* ---------- main(): the loop while game.legal_plays(): game.play() ---------- *)

\* The games main() is run on, as <<board size, opening>>: the default board
\* with the random draws of the first 32 rounds fixed, and two small boards,
\* one from the empty board with every draw free.  After the opening every
\* draw is free until the loop ends.
MainGames ==
    { <<DefaultBoardSize,
        <<4, 3, 6, 0, 1, 4, 5, 5, 1, 1, 5, 0, 1, 6, 0, 1, 5, 5, 1, 0, 4, 6, 3,
          2, 6, 6, 0, 4, 6, 5, 2, 0>> >>,
      << <<3, 3>>, <<>> >>,
      << <<4, 3>>, <<0, 1, 2>> >> }

\* game = Game(board_size=..., save_history=True)
MainInit ==
    /\ \E mg \in MainGames : board_size = mg[1] /\ script = mg[2]
    /\ state = Zeros(board_size)
    /\ save_history = TRUE
    /\ history = <<Zeros(board_size)>>
    /\ last_play = None
    /\ players_gen = 1
    /\ current_player = players_values[1]
    /\ winner_ = None
    /\ played = <<>>
    /\ call = "init"
    /\ arg = None
    /\ raised = FALSE
    /\ ret_plays = <<>>
    /\ ret_winner = None

\* while game.legal_plays(): the test of the loop, at entry and after a round
MainTest ==
    /\ call \in {"init", "winner"}
    /\ CallLegalPlays

\* the random draw of a round of the opening is the one of the script
MainDraw(selected_move) ==
    Len(played) < Len(script) => selected_move = script[Len(played) + 1]

\* game.play() in the body of the loop
MainPlay ==
    /\ call = "legal_plays"
    /\ ret_plays # <<>>
    /\ call' = "play"
    /\ arg' = None
    /\ ret_plays' = <<>>
    /\ ret_winner' = None
    /\ UNCHANGED <<board_size, save_history, script>>
    /\ IF Selected(legal_plays) = {}
       THEN Raise
       ELSE \E selected_move \in Selected(legal_plays) :
                MainDraw(selected_move) /\ ApplyMove(selected_move)

\* if game.winner() is not None, after a play() that returned
MainWinner ==
    /\ call = "play"
    /\ ~raised
    /\ CallWinner

\* the loop has ended: legal_plays() returned the empty list
MainDone == call = "legal_plays" /\ ret_plays = <<>>

MainNext ==
    \/ MainTest
    \/ MainPlay
    \/ MainWinner

\* main() runs on: a step that can be taken is taken
SpecMain == MainInit /\ [][MainNext]_vars /\ WF_vars(MainNext)

(* ---------- vocabulary of the properties ---------- *)

Cells == DOMAIN state
Occupied(x) == {c \in DOMAIN x : x[c] # 0}
Full(x) == \A c \in DOMAIN x : x[c] # 0

\* directions of a line: down a column, along a row, the two diagonals
Directions == {<<1, 0>>, <<0, 1>>, <<1, 1>>, <<1, -1>>}

\* the lines of four consecutive cells of the grid holding one player's value,
\* each as <<cell, direction>>
FourLines(x) ==
    {l \in (DOMAIN x) \X Directions :
        /\ x[l[1]] # 0
        /\ \A k \in 1 .. 3 :
              /\ <<l[1][1] + k * l[2][1], l[1][2] + k * l[2][2]>> \in DOMAIN x
              /\ x[l[1][1] + k * l[2][1], l[1][2] + k * l[2][2]] = x[l[1]]}

\* the last call was a play() that returned normally / that raised
Accepted == call = "play" /\ ~raised
Rejected == call = "play" /\ raised

\* the cells whose value differs between two grids
Changed(x, y) == {c \in DOMAIN x : x[c] # y[c]}

\* the player making the m-th accepted move of a game while turns alternate
Mover(m) == IF m % 2 = 1 THEN 1 ELSE 2

\* the grid x after a piece of player v is dropped, by the rules of the game,
\* into column j: it falls to the lowest Empty cell
DropPiece(x, j, v) ==
    LET i == CHOOSE r \in 0 .. Rows - 1 :
                 /\ x[r, j] = 0
                 /\ \A r2 \in r + 1 .. Rows - 1 : x[r2, j] # 0
    IN  [x EXCEPT ![i, j] = v]

(* ---------- C1 ---------- *)

\* C1: on the default 6x7 board, in every reachable state the winner is set
\* iff the grid holds four consecutive equal player cells in a column, a row
\* or a diagonal, and then every such line belongs to the winner.  As this
\* holds before and after every move, the winner is set by the very move
\* that completes the line.
C1_WinnerIffFour ==
    board_size = DefaultBoardSize =>
        LET lines == FourLines(state) IN
        /\ (winner # None) <=> (lines # {})
        /\ \A l \in lines : state[l[1]] = winner
        /\ winner \in {None, 1, 2}

\* C1: the move completes the line: the winner changes only on an accepted
\* play from a grid without a line to a grid with one through the new piece,
\* and is then the mover; a move that leaves the winner unset leaves no line
C1_SetByCompletingMove ==
    [][/\ (winner' # winner) =>
            /\ winner = None /\ Accepted' /\ FourLines(state) = {}
            /\ winner' = current_player
            /\ \E l \in FourLines(state') : Changed(state, state') \subseteq
                   {<<l[1][1] + k * l[2][1], l[1][2] + k * l[2][2]>> : k \in 0 .. 3}
       /\ (state' # state /\ winner' = winner) => FourLines(state') = {}]_vars

C1_Winner == []C1_WinnerIffFour /\ C1_SetByCompletingMove

\* a player B win on an anti-diagonal, after 0..3 free moves
C1_Witness ==
    /\ winner = 2
    /\ \E l \in FourLines(state) : l[2] = <<1, -1>>

(* ---------- C2 ---------- *)

\* C2: while no winner is set, legal_plays() lists in strictly ascending order
\* exactly the columns whose top cell (row 0) is Empty; its length is at most
\* the number of columns.
C2_LegalPlays ==
    winner = None =>
        LET lp == legal_plays IN
        /\ \A k \in 1 .. Len(lp) - 1 : lp[k] < lp[k + 1]
        /\ {lp[k] : k \in 1 .. Len(lp)} = {j \in 0 .. Columns - 1 : state[0, j] = 0}
        /\ Len(lp) <= Columns

\* no winner, some column full and some column open
C2_Witness ==
    /\ winner = None
    /\ \E j \in 0 .. Columns - 1 : state[0, j] # 0
    /\ Len(legal_plays) >= 2

(* ---------- C3 ---------- *)

\* C3: once a winner is set, every later call leaves the winner and the grid
\* as they are, legal_plays() returns the empty list, winner() returns the
\* same player and every play call raises.
C3_TerminalStep ==
    winner # None =>
        /\ winner' = winner
        /\ state' = state
        /\ legal_plays' = <<>>
        /\ (call' = "play" => raised')
        /\ (call' = "legal_plays" => ret_plays' = <<>>)
        /\ (call' = "winner" => ret_winner' = winner)

C3_Terminal == [](winner # None => legal_plays = <<>>) /\ [][C3_TerminalStep]_vars

\* a play() without column rejected after a win that left Empty cells
C3_Witness ==
    /\ winner # None
    /\ Rejected /\ arg = None
    /\ ~Full(state)

(* ---------- C4 ---------- *)

\* C4: play(col) with col not in legal_plays() raises and leaves the grid,
\* the history, the current player, the winner and the last play unchanged.
C4_IllegalStep ==
    (call' = "play" /\ arg' # None /\ ~In(arg', legal_plays)) =>
        /\ raised'
        /\ UNCHANGED <<state, history, current_player, winner_, last_play>>

C4_Illegal == [][C4_IllegalStep]_vars

\* play(col) on a full column rejected while the game is still running
C4_Witness ==
    /\ Rejected /\ winner = None
    /\ arg \in 0 .. Columns - 1
    /\ state[0, arg] # 0
    /\ ~Full(state)

(* ---------- C5 ---------- *)

\* C5: an accepted play changes exactly one cell, which lies in the selected
\* column (the given one when a column was given), was Empty and now holds
\* the value of the player who was current at the call; no step changes an
\* occupied cell, and the occupied count grows by one on an accepted play.
C5_OneCellStep ==
    /\ (Accepted' /\ played' # played) =>
          /\ Cardinality(Changed(state, state')) = 1
          /\ \A c \in Changed(state, state') :
                /\ c[2] = played'[Len(played')]
                /\ (arg' # None => c[2] = arg')
                /\ state[c] = 0
                /\ state'[c] = current_player
          /\ Cardinality(Occupied(state')) = Cardinality(Occupied(state)) + 1
    /\ \A c \in Cells : state[c] # 0 => state'[c] = state[c]

C5_OneCell == [][C5_OneCellStep]_vars

\* an accepted move on top of a column that already holds both players' pieces
C5_Witness ==
    /\ Accepted
    /\ Len(played) > Len(script)
    /\ \E j \in 0 .. Columns - 1 :
          /\ last_play = j
          /\ Cardinality({i \in 0 .. Rows - 1 : state[i, j] # 0}) >= 3

(* ---------- C6 ---------- *)

\* C6: in every reachable state no column has an Empty cell below an occupied
\* one, and on an accepted play the piece lands in the lowest Empty cell of
\* its column, at row rows - (occupied cells of the column before) - 1, a
\* valid row.
C6_NoGap ==
    \A c \in Cells : state[c] # 0 =>
        \A i \in c[1] + 1 .. Rows - 1 : state[i, c[2]] # 0

C6_DropStep ==
    (Accepted' /\ played' # played) =>
        /\ Changed(state, state') # {}
        /\ \A c \in Changed(state, state') :
              /\ c[1] \in 0 .. Rows - 1
              /\ c[1] = Rows - Cardinality({i \in 0 .. Rows - 1 : state[i, c[2]] # 0}) - 1
              /\ state[c] = 0
              /\ \A i \in c[1] + 1 .. Rows - 1 : state[i, c[2]] # 0

C6_Gravity == []C6_NoGap /\ [][C6_DropStep]_vars

\* a piece has just landed on top of another one, below the top row
C6_Witness ==
    /\ Accepted
    /\ \E i \in 1 .. Rows - 2 :
          /\ state[i, last_play] # 0
          /\ state[i - 1, last_play] = 0
          /\ state[i + 1, last_play] # 0

(* ---------- C7 ---------- *)

\* C7: legal_plays() is empty iff a winner is set or the grid is full; a full
\* grid without a line of four has no legal play and no winner.
C7_NoLegalPlay ==
    /\ (legal_plays = <<>>) <=> (winner # None \/ Full(state))
    /\ (Full(state) /\ FourLines(state) = {}) =>
          (legal_plays = <<>> /\ winner = None)

\* the draw: 42 pieces, no line of four
C7_Witness ==
    /\ Full(state)
    /\ FourLines(state) = {}
    /\ winner = None
    /\ legal_plays = <<>>

(* ---------- C8 ---------- *)

\* C8: player A (value 1) starts; an accepted move without winner passes the
\* turn to the other player; an accepted winning move and a rejected call
\* leave it; in a terminal state the current player is the winner and the
\* player of the last accepted move.
C8_TurnState ==
    /\ (played = <<>> => current_player = 1)
    /\ current_player \in {1, 2}
    /\ (winner # None =>
          (current_player = winner /\ current_player = Mover(Len(played))))

C8_TurnStep ==
    /\ (Accepted' /\ played' # played /\ winner' = None) =>
          (current_player' # current_player /\ current_player' \in {1, 2})
    /\ (Accepted' /\ played' # played /\ winner' # None) =>
          current_player' = current_player
    /\ Rejected' => current_player' = current_player

C8_Turns == []C8_TurnState /\ [][C8_TurnStep]_vars

\* player B has just won: the turn stays with B
C8_Witness ==
    /\ Accepted
    /\ winner = 2
    /\ current_player = 2

(* ---------- C9 ---------- *)

\* C9: with save_history, after k accepted moves the history has k+1
\* snapshots, snapshot 0 is the empty board, snapshot m is the grid right
\* after the m-th accepted move, the last snapshot is the current grid, and
\* no step alters an existing snapshot.
C9_HistoryState ==
    save_history =>
        /\ Len(history) = Len(played) + 1
        /\ history[1] = [c \in Cells |-> 0]
        /\ \A m \in 1 .. Len(played) :
              history[m + 1] = DropPiece(history[m], played[m], Mover(m))
        /\ history[Len(history)] = state

C9_HistoryStep ==
    save_history =>
        /\ Len(history') >= Len(history)
        /\ \A m \in 1 .. Len(history) : history'[m] = history[m]
        /\ (Accepted' /\ played' # played) =>
              (Len(history') = Len(history) + 1 /\ history'[Len(history')] = state')
        /\ ~(Accepted' /\ played' # played) => history' = history

C9_History == []C9_HistoryState /\ [][C9_HistoryStep]_vars

\* three snapshots after the opening, followed by a rejected call
C9_Witness ==
    /\ save_history
    /\ Len(history) >= Len(script) + 3
    /\ Len(history) >= 4
    /\ Rejected

(* ---------- C10 ---------- *)

\* C10: play() without column when legal_plays() is empty raises and leaves
\* the grid, the history, the current player, the winner and the last play
\* unchanged.
C10_NoMoveStep ==
    (call' = "play" /\ arg' = None /\ legal_plays = <<>>) =>
        /\ raised'
        /\ UNCHANGED <<state, history, current_player, winner_, last_play>>

C10_NoMove == [][C10_NoMoveStep]_vars

\* play() without column rejected on the full board of a draw
C10_Witness ==
    /\ Rejected /\ arg = None
    /\ Full(state)
    /\ winner = None

(* ---------- C11 ---------- *)

\* C11: a call of legal_plays() or winner() leaves the grid, the history, the
\* current player, the turn iterator, the winner and the last play unchanged,
\* never raises, returns what the state determines, and a call repeated with
\* no play in between returns the same result.
C11_QueryStep ==
    /\ (call' \in {"legal_plays", "winner"}) => (UNCHANGED game /\ ~raised')
    /\ (call = "legal_plays" /\ call' = "legal_plays") => ret_plays' = ret_plays
    /\ (call = "winner" /\ call' = "winner") => ret_winner' = ret_winner
    /\ (call = "legal_plays" /\ call' = "winner") => legal_plays' = ret_plays
    /\ (call = "winner" /\ call' = "legal_plays") => winner' = ret_winner

C11_Pure == [][C11_QueryStep]_vars

\* legal_plays() has returned some but not all columns of a game in progress
C11_Witness ==
    /\ call = "legal_plays"
    /\ Len(ret_plays) \in 1 .. Columns - 1
    /\ played # <<>>

(* ---------- C12 ---------- *)

\* the game of the model as a value
ThisGame ==
    [state |-> state, history |-> history, last_play |-> last_play,
     players_gen |-> players_gen, current_player |-> current_player,
     winner_ |-> winner_, raised |-> raised, accepted |-> Len(played)]

\* the column in which two consecutive snapshots differ
ChangedColumn(before, after) ==
    CHOOSE col \in 0 .. Columns - 1 : \E cell \in Changed(before, after) : cell[2] = col

\* the column sequence read off the history
ColumnsOf(snapshots) ==
    [n \in 1 .. Len(snapshots) - 1 |-> ChangedColumn(snapshots[n], snapshots[n + 1])]

\* C12: with save_history, consecutive snapshots differ in exactly one cell,
\* and a fresh game of the same size fed with play(col) the columns read off
\* the snapshots accepts every one of them and ends with the same snapshots,
\* grid, current player and winner.  It is evaluated after __init__ and after
\* every play() call; legal_plays() and winner() leave the game as it is.
C12_ReplayState ==
    (save_history /\ call \in {"init", "play"}) =>
        LET read == ColumnsOf(history)
        IN  /\ \A m \in 1 .. Len(history) - 1 :
                  Cardinality(Changed(history[m], history[m + 1])) = 1
            /\ Len(read) = Len(played)
            /\ Replay(read, Len(read), board_size, TRUE)
                  = [ThisGame EXCEPT !.raised = FALSE]

\* C12: the outcome of play(col) is determined by the game before the call and
\* the column: a second game in the same state fed the same column accepts or
\* rejects it alike and is in the same state afterwards.
C12_SameStep ==
    (call' = "play" /\ arg' # None) =>
        PlayOn(ThisGame, board_size, save_history, arg') = ThisGame'

C12_Replay == []C12_ReplayState /\ [][C12_SameStep]_vars

\* a won game with history whose moves were not all given by the caller,
\* probed afterwards with a rejected play(col)
C12_Witness ==
    /\ save_history
    /\ winner # None
    /\ Len(played) > Len(script)
    /\ Rejected /\ arg # None

(* ---------- C13 ---------- *)

\* C13: on every board size the winner is set only when the grid holds a line
\* of four, and every diagonal or anti-diagonal line of four in the grid
\* belongs to the winner: the move completing it has set the winner.
C13_DiagonalsAnySize ==
    /\ winner # None => FourLines(state) # {}
    /\ \A l \in FourLines(state) :
          l[2] \in {<<1, 1>>, <<1, -1>>} => winner = state[l[1]]

(* ---------- C14 ---------- *)

\* C14: play() without column while legal_plays() is not empty does not raise;
\* the move it applies is in a column of the legal_plays() of the call and
\* leaves the game as play(col) with that column would.
C14_RandomStep ==
    (call' = "play" /\ arg' = None /\ legal_plays # <<>>) =>
        /\ ~raised'
        /\ played' = Append(played, last_play')
        /\ In(last_play', legal_plays)
        /\ ThisGame' = PlayOn(ThisGame, board_size, save_history, last_play')

\* C14: the columns the random draw can select are all those of legal_plays();
\* right after the opening this is also checked on the steps themselves:
\* play() without column has a step into every legal column
C14_EveryColumn ==
    /\ \A k \in 1 .. Len(legal_plays) : legal_plays[k] \in Selected(legal_plays)
    /\ (CallerPlays(None) /\ Len(played) = Len(script) /\ call \in {"init", "play"}) =>
          \A k \in 1 .. Len(legal_plays) :
              ENABLED (Play(None) /\ last_play' = legal_plays[k])

C14_Random == []C14_EveryColumn /\ [][C14_RandomStep]_vars

\* play() without column has selected the last of several legal columns
\* while another column was full
C14_Witness ==
    /\ Accepted /\ arg = None
    /\ winner = None
    /\ \E j \in 0 .. Columns - 1 : state[0, j] # 0
    /\ Len(legal_plays) >= 2
    /\ last_play = legal_plays[Len(legal_plays)]

(* ---------- C15 ---------- *)

\* C15: in the loop of main() at most rows x columns moves are accepted, no
\* play() raises, and the loop ends only with a winner set or the board full.
C15_LoopState ==
    /\ Len(played) <= Rows * Columns
    /\ (call = "play" => ~raised)
    /\ (MainDone => (winner # None \/ Full(state)))

\* C15: the loop of main() terminates, and within these limits
C15_Terminates == []C15_LoopState /\ <>MainDone

\* the loop has ended on a full board without winner
C15_Witness ==
    /\ MainDone
    /\ Full(state)
    /\ winner = None
    /\ Len(played) = Rows * Columns

(* ---------- C16 ---------- *)

\* C16: without save_history the history holds exactly one snapshot, equal to
\* the current grid (the empty board before any move), and after __init__
\* and every play() call the grid, the legal plays, the current player, the
\* winner and the last play are those of a game with save_history that was
\* fed the same accepted columns, which accepts them all.
C16_NoHistory ==
    ~save_history =>
        /\ Len(history) = 1
        /\ history[1] = state
        /\ (played = <<>> => state = [c \in Cells |-> 0])
        /\ call \in {"init", "play"} =>
              LET kept == Replay(played, Len(played), board_size, TRUE)
              IN  /\ kept.accepted = Len(played)
                  /\ kept.state = state
                  /\ LegalPlaysOf(kept, board_size) = legal_plays
                  /\ kept.current_player = current_player
                  /\ kept.winner_ = winner_
                  /\ kept.last_play = last_play
                  /\ Len(kept.history) = Len(played) + 1

\* a won game without history, several moves after the opening
C16_Witness ==
    /\ ~save_history
    /\ winner # None
    /\ Len(played) >= Len(script) + 2
    /\ Accepted

(* ---------- C17 ---------- *)

\* the row of the topmost piece of column j
TopRow(x, j) == Rows - Cardinality({i \in 0 .. Rows - 1 : x[i, j] # 0})

\* C17 as claimed: before the first move the last play is unset, and after an
\* accepted move it is the pair of the column of the piece just placed and
\* its landing row.
C17_LastPlayIsPair ==
    /\ played = <<>> => LastPlayRecord = <<>>
    /\ played # <<>> =>
          LastPlayRecord = <<played[Len(played)], TopRow(state, played[Len(played)])>>

\* C17 amended: the last play is unset before the first move and is afterwards
\* the column alone of the piece placed by the last accepted move, whose
\* topmost piece is that piece
C17_LastPlayState ==
    /\ played = <<>> => LastPlayRecord = <<>>
    /\ played # <<>> =>
          /\ LastPlayRecord = <<played[Len(played)]>>
          /\ last_play \in 0 .. Columns - 1

\* C17 amended: an accepted play records the column of the one cell it
\* changes, which is the given column when one was given; a rejected call
\* leaves the last play as it is
C17_LastPlayStep ==
    /\ (Accepted' /\ played' # played) =>
          /\ \A c \in Changed(state, state') : last_play' = c[2]
          /\ Changed(state, state') # {}
          /\ (arg' # None => last_play' = arg')
    /\ Rejected' => last_play' = last_play

C17_LastPlay == []C17_LastPlayState /\ [][C17_LastPlayStep]_vars

\* play() without column has just dropped a piece on top of others
C17_Witness ==
    /\ Accepted /\ arg = None
    /\ last_play \in 0 .. Columns - 1
    /\ TopRow(state, last_play) \in 1 .. Rows - 2

(* ---------- C18 ---------- *)

\* the number of cells of the grid holding v
CountOf(x, v) == Cardinality({c \in DOMAIN x : x[c] = v})

\* C18: every cell holds 0, 1 or 2; the occupied cells are as many as the
\* accepted moves; player A has as many pieces as player B or one more; while
\* no winner is set the counts are equal exactly when A is the current player
\* and differ by one exactly when B is.
C18_PieceCount ==
    LET a == CountOf(state, 1)
        b == CountOf(state, 2)
    IN  /\ \A c \in Cells : state[c] \in {0, 1, 2}
        /\ Cardinality(Occupied(state)) = Len(played)
        /\ a - b \in {0, 1}
        /\ winner = None =>
              /\ (a - b = 0) <=> (current_player = 1)
              /\ (a - b = 1) <=> (current_player = 2)

\* player B has won a game after the opening: both players hold as many pieces
C18_Witness ==
    /\ winner = 2
    /\ CountOf(state, 1) = CountOf(state, 2)
    /\ Len(played) > Len(script)

====
